---- MODULE Spec2Model ----
(***************************************************************************)
(* Model of the yaruki questionnaire script (src/unnamed/part_003, the     *)
(* version of lines 155-403): the module globals decisionTree,             *)
(* currentQuestion and answerHistory, the browser's localStorage, the DOM  *)
(* elements the script touches, and one action per event of a page life    *)
(* (script start, completion of the tree fetch, a click on yes / no /      *)
(* back, restart from the result page, reload).                            *)
(***************************************************************************)
EXTENDS Integers, Sequences, FiniteSets, TLC

(***************************************************************************)
(* JavaScript values.  Every value is a record tagged by its type, so that *)
(* undefined, null, the string "undefined" and the string "null" are four  *)
(* different values, as they are in the script.                            *)
(***************************************************************************)
Undefined == [t |-> "undefined"]
Null == [t |-> "null"]
Str(s) == [t |-> "string", v |-> s]
Num(n) == [t |-> "number", v |-> n]
Arr(a) == [t |-> "array", v |-> a]
\* an object is the sequence of its <<key, value>> properties in insertion order
Obj(p) == [t |-> "object", v |-> p]
\* a string that holds JSON text, kept as the sequence of its tokens
JsonText(toks) == [t |-> "jsontext", v |-> toks]

IsString(v) == v.t \in {"string", "jsontext"}

\* ToBoolean of the language: the falsy values are undefined, null, "", 0
Truthy(v) ==
    CASE v.t = "undefined" -> FALSE
      [] v.t = "null" -> FALSE
      [] v.t = "string" -> v.v # ""
      [] v.t = "number" -> v.v # 0
      [] OTHER -> TRUE

\* obj.key : the value of the last property named key, undefined when absent
\* or when obj is a primitive; the caller checks for null / undefined first
RECURSIVE PropOf(_, _, _)
PropOf(p, key, i) ==
    IF i = 0 THEN Undefined
    ELSE IF p[i][1] = key THEN p[i][2] ELSE PropOf(p, key, i - 1)

Get(obj, key) ==
    IF obj.t = "object" THEN PropOf(obj.v, key, Len(obj.v)) ELSE Undefined

(***************************************************************************)
(* JSON text: tokens are <<kind, text>> with kind "p" (punctuation),       *)
(* "q" (a quoted string literal), "n" (a number) or "w" (a bare word).     *)
(***************************************************************************)
P(c) == <<"p", c>>
Q(s) == <<"q", s>>
W(s) == <<"w", s>>

N(n) == <<"n", n>>
IsP(tk, c) == tk[1] = "p" /\ tk[2] = c

\* the string whose characters are the tokens toks; a lone bare word is the
\* plain string of that word
MkString(toks) ==
    IF Len(toks) = 1 /\ toks[1][1] = "w" THEN Str(toks[1][2]) ELSE JsonText(toks)

\* the tokens of a string; a plain string is one bare word
TokensOf(str) == IF str.t = "jsontext" THEN str.v ELSE << W(str.v) >>

RECURSIVE StringifyValue(_), StringifyElems(_, _), StringifyProps(_, _, _)
\* JSON.stringify of a value nested in an array or an object
StringifyValue(v) ==
    CASE v.t = "null" -> << W("null") >>
      [] v.t = "undefined" -> << W("null") >>
      [] v.t = "number" -> << N(v.v) >>
      [] v.t = "string" -> << Q(v.v) >>
      [] v.t = "array" -> << P("[") >> \o StringifyElems(v.v, 1) \o << P("]") >>
      [] v.t = "object" -> << P("{") >> \o StringifyProps(v.v, 1, TRUE) \o << P("}") >>

StringifyElems(a, i) ==
    IF i > Len(a) THEN << >>
    ELSE (IF i > 1 THEN << P(",") >> ELSE << >>)
         \o StringifyValue(a[i]) \o StringifyElems(a, i + 1)

\* properties whose value is undefined are left out
StringifyProps(p, i, first) ==
    IF i > Len(p) THEN << >>
    ELSE IF p[i][2].t = "undefined" THEN StringifyProps(p, i + 1, first)
    ELSE (IF first THEN << >> ELSE << P(",") >>)
         \o << Q(p[i][1]), P(":") >> \o StringifyValue(p[i][2])
         \o StringifyProps(p, i + 1, FALSE)

JSONstringify(v) == MkString(StringifyValue(v))

\* the property list p with key set to val (a new key goes last)
SetProp(p, key, val) ==
    IF \E i \in 1..Len(p) : p[i][1] = key
    THEN [i \in 1..Len(p) |-> IF p[i][1] = key THEN <<key, val>> ELSE p[i]]
    ELSE Append(p, <<key, val>>)

ParseFail == [ok |-> FALSE, val |-> Undefined, nxt |-> 0]

RECURSIVE ParseValue(_, _), ParseElems(_, _, _), ParseProps(_, _, _)
\* parses one value starting at token i: [ok, val, nxt = index after it]
ParseValue(toks, i) ==
    IF i > Len(toks) THEN ParseFail
    ELSE LET tk == toks[i] IN
      CASE tk[1] = "q" -> [ok |-> TRUE, val |-> Str(tk[2]), nxt |-> i + 1]
        [] tk[1] = "n" -> [ok |-> TRUE, val |-> Num(tk[2]), nxt |-> i + 1]
        [] tk[1] = "w" ->
             IF tk[2] = "null" THEN [ok |-> TRUE, val |-> Null, nxt |-> i + 1]
             ELSE ParseFail
        [] IsP(tk, "[") ->
             IF i + 1 <= Len(toks) /\ IsP(toks[i + 1], "]")
             THEN [ok |-> TRUE, val |-> Arr(<< >>), nxt |-> i + 2]
             ELSE ParseElems(toks, i + 1, << >>)
        [] IsP(tk, "{") ->
             IF i + 1 <= Len(toks) /\ IsP(toks[i + 1], "}")
             THEN [ok |-> TRUE, val |-> Obj(<< >>), nxt |-> i + 2]
             ELSE ParseProps(toks, i + 1, << >>)
        [] OTHER -> ParseFail

\* the elements of an array, after "[" or ","
ParseElems(toks, i, acc) ==
    LET e == ParseValue(toks, i) IN
    IF ~e.ok \/ e.nxt > Len(toks) THEN ParseFail
    ELSE IF IsP(toks[e.nxt], "]")
         THEN [ok |-> TRUE, val |-> Arr(Append(acc, e.val)), nxt |-> e.nxt + 1]
    ELSE IF IsP(toks[e.nxt], ",")
         THEN ParseElems(toks, e.nxt + 1, Append(acc, e.val))
    ELSE ParseFail

\* the properties of an object, after "{" or ","
ParseProps(toks, i, acc) ==
    IF i + 1 > Len(toks) \/ toks[i][1] # "q" \/ ~IsP(toks[i + 1], ":") THEN ParseFail
    ELSE LET e == ParseValue(toks, i + 2) IN
      IF ~e.ok \/ e.nxt > Len(toks) THEN ParseFail
      ELSE IF IsP(toks[e.nxt], "}")
           THEN [ok |-> TRUE, val |-> Obj(SetProp(acc, toks[i][2], e.val)),
                 nxt |-> e.nxt + 1]
      ELSE IF IsP(toks[e.nxt], ",")
           THEN ParseProps(toks, e.nxt + 1, SetProp(acc, toks[i][2], e.val))
      ELSE ParseFail

\* JSON.parse(str): [ok, val]; ok = FALSE is a thrown SyntaxError
JSONparse(str) ==
    LET toks == TokensOf(str)
        r == ParseValue(toks, 1)
    IN IF r.ok /\ r.nxt = Len(toks) + 1
       THEN [ok |-> TRUE, val |-> r.val]
       ELSE [ok |-> FALSE, val |-> Undefined]

(***************************************************************************)
(* Bounds of the model.                                                    *)
(***************************************************************************)
\* clicks are accepted while the in-memory history is shorter than this
MaxHistory == 3

(***************************************************************************)
(* The decision tree served as decision-tree.json.  The script takes it as *)
(* data, so the model draws it from a few trees: a well-formed one, the    *)
(* tree of the test setup whose branches point at absent nodes, one with a *)
(* missing branch, and one without the root q1.                            *)
(***************************************************************************)
Question(step, text, yes, no) ==
    Obj(<< <<"step", Num(step)>>, <<"text", Str(text)>>,
           <<"yes", Str(yes)>>, <<"no", Str(no)>> >>)
Action(title, content) ==
    Obj(<< <<"title", Str(title)>>, <<"content", Str(content)>> >>)

TreeWellFormed ==
    Obj(<< <<"q1", Question(1, "T1", "q2", "action_x")>>,
           <<"q2", Question(2, "T2", "q3", "action_y")>>,
           <<"q3", Question(3, "T3", "action_z", "action_x")>>,
           <<"action_x", Action("RX", "CX")>>,
           <<"action_y", Action("RY", "CY")>>,
           <<"action_z", Action("RZ", "CZ")>> >>)

\* q1.no and q2.no point at nodes that are not in the tree
TreeDangling ==
    Obj(<< <<"q1", Question(1, "T1", "q2", "action_x")>>,
           <<"q2", Question(2, "T2", "action_y", "action_z")>>,
           <<"action_y", Action("RY", "CY")>> >>)

\* q2 has no "no" branch
TreeMissingBranch ==
    Obj(<< <<"q1", Question(1, "T1", "q2", "action_x")>>,
           <<"q2", Obj(<< <<"step", Num(2)>>, <<"text", Str("T2")>>,
                          <<"yes", Str("action_y")>> >>)>>,
           <<"action_x", Action("RX", "CX")>>,
           <<"action_y", Action("RY", "CY")>> >>)

\* no node q1
TreeNoRoot ==
    Obj(<< <<"q2", Question(2, "T2", "q3", "action_y")>>,
           <<"q3", Question(3, "T3", "action_y", "action_y")>>,
           <<"action_y", Action("RY", "CY")>> >>)

Trees == {TreeWellFormed, TreeDangling, TreeMissingBranch, TreeNoRoot}

\* the keys of an object
Keys(obj) == {obj.v[i][1] : i \in 1..Len(obj.v)}

\* the ids of the model that start with "action_"
ActionIds == {"action_x", "action_y", "action_z"}
\* questionId.startsWith('action_'), over the ids of the model
StartsWithAction(id) == id.t = "string" /\ id.v \in ActionIds

\* the property key a value used as index converts to
ToPropertyKey(v) ==
    CASE v.t = "string" -> v.v
      [] v.t = "undefined" -> "undefined"
      [] v.t = "null" -> "null"
      [] OTHER -> "<other>"

\* obj[index]
Index(obj, index) == Get(obj, ToPropertyKey(index))

(***************************************************************************)
(* localStorage: every key holds a string, or null when it is absent.      *)
(***************************************************************************)
KResult == "yaruki-result"
KHistory == "yaruki-answer-history"
KQuestion == "yaruki-current-question"
KVersion == "yaruki-cache-version"
KOther == "other-key"
YarukiKeys == {KResult, KHistory, KQuestion, KVersion}
StorageKeys == YarukiKeys \cup {KOther}

CACHE_VERSION == Str("2")

\* the conversion of a value to the string setItem stores
String(v) ==
    CASE v.t \in {"string", "jsontext"} -> v
      [] v.t = "undefined" -> Str("undefined")
      [] v.t = "null" -> Str("null")
      [] v.t = "number" -> JsonText(<< N(v.v) >>)
      [] OTHER -> Str("[object]")

getItem(s, key) == s.localStorage[key]
setItem(s, key, value) == [s EXCEPT !.localStorage[key] = String(value)]
removeItem(s, key) == [s EXCEPT !.localStorage[key] = Null]

(***************************************************************************)
(* The elements the script looks up with getElementById.                   *)
(***************************************************************************)
Elements == {"question-container", "question-text", "yes-btn", "no-btn",
             "back-btn", "progress-fill", "progress-text", "result-container"}
Has(s, e) == e \in s.present

\* a thrown exception ends the running handler: every later step is skipped
Throw(s) == [s EXCEPT !.thrown = TRUE]

\* value.length for a value that is neither null nor undefined
Length(v) ==
    CASE v.t = "array" -> Num(Len(v.v))
      [] v.t = "object" -> Get(v, "length")
      [] OTHER -> Undefined

Nullish(v) == v.t \in {"undefined", "null"}

(***************************************************************************)
(* The functions of the script.  Each takes the program state s (a record  *)
(* of the globals, localStorage, the DOM and the pending navigation) and   *)
(* returns the state it leaves.                                            *)
(***************************************************************************)

\* clearAllYarukiCache as localStorage.clear()
clearAllYarukiCache_clearsStorage(s) ==
    [s EXCEPT !.localStorage = [k \in StorageKeys |-> Null],
              !.currentQuestion = Str("q1"), !.answerHistory = Arr(<< >>)]

\* clearAllYarukiCache leaving the answer history in the storage
clearAllYarukiCache_keepsHistory(s) ==
    LET s1 == removeItem(s, KResult)
        s3 == removeItem(s1, KQuestion)
        s4 == removeItem(s3, KVersion)
    IN [s4 EXCEPT !.currentQuestion = Str("q1"), !.answerHistory = Arr(<< >>)]

clearAllYarukiCache(s) ==
    LET s1 == removeItem(s, KResult)
        s2 == removeItem(s1, KHistory)
        s3 == removeItem(s2, KQuestion)
        s4 == removeItem(s3, KVersion)
    IN [s4 EXCEPT !.currentQuestion = Str("q1"), !.answerHistory = Arr(<< >>)]

\* the restore leaving the history of an inconsistent completed session
RestoreSaved_keepsHistory(s) ==
    LET savedQuestion == getItem(s, KQuestion)
        savedHistory == getItem(s, KHistory)
        savedResult == getItem(s, KResult)
        parsed == JSONparse(savedHistory)
        s1 == IF Truthy(savedResult) /\ ~Truthy(savedQuestion)
              THEN [removeItem(s, KResult) EXCEPT !.currentQuestion = Str("q1")]
              ELSE IF Truthy(savedQuestion)
                   THEN [s EXCEPT !.currentQuestion = savedQuestion]
                   ELSE s
    IN IF Truthy(savedHistory)
       THEN [s1 EXCEPT !.answerHistory =
                          IF parsed.ok THEN parsed.val ELSE Arr(<< >>)]
       ELSE s1

\* the restore discarding the whole session when the history does not parse
RestoreSaved_clearsOnParseError(s) ==
    LET savedQuestion == getItem(s, KQuestion)
        savedHistory == getItem(s, KHistory)
        savedResult == getItem(s, KResult)
    IN
    IF Truthy(savedResult) /\ ~Truthy(savedQuestion)
    THEN LET s1 == removeItem(s, KResult)
             s2 == removeItem(s1, KHistory)
         IN [s2 EXCEPT !.currentQuestion = Str("q1"), !.answerHistory = Arr(<< >>)]
    ELSE
      LET s1 == IF Truthy(savedQuestion)
                THEN [s EXCEPT !.currentQuestion = savedQuestion]
                ELSE s
          parsed == JSONparse(savedHistory)
      IN IF Truthy(savedHistory)
         THEN IF parsed.ok THEN [s1 EXCEPT !.answerHistory = parsed.val]
              ELSE clearAllYarukiCache(s1)
         ELSE s1

\* the restore of loadStateFromStorage, after the version check
RestoreSaved(s) ==
    LET savedQuestion == getItem(s, KQuestion)
        savedHistory == getItem(s, KHistory)
        savedResult == getItem(s, KResult)
    IN
    IF Truthy(savedResult) /\ ~Truthy(savedQuestion)
    THEN LET s1 == removeItem(s, KResult)
             s2 == removeItem(s1, KHistory)
         IN [s2 EXCEPT !.currentQuestion = Str("q1"), !.answerHistory = Arr(<< >>)]
    ELSE
      LET s1 == IF Truthy(savedQuestion)
                THEN [s EXCEPT !.currentQuestion = savedQuestion]
                ELSE s
          parsed == JSONparse(savedHistory)
      IN IF Truthy(savedHistory)
         THEN [s1 EXCEPT !.answerHistory =
                            IF parsed.ok THEN parsed.val ELSE Arr(<< >>)]
         ELSE s1

\* loadStateFromStorage that does not write the version tag after a reset
loadStateFromStorage_noVersionWrite(s) ==
    IF getItem(s, KVersion) # CACHE_VERSION
    THEN clearAllYarukiCache(s)
    ELSE RestoreSaved(s)

\* loadStateFromStorage that, on a version mismatch, only updates the tag and
\* goes on to restore the saved state
loadStateFromStorage_restoresStale(s) ==
    IF getItem(s, KVersion) # CACHE_VERSION
    THEN RestoreSaved(setItem(s, KVersion, CACHE_VERSION))
    ELSE RestoreSaved(s)

loadStateFromStorage(s) ==
    LET cachedVersion == getItem(s, KVersion) IN
    IF cachedVersion # CACHE_VERSION
    THEN setItem(clearAllYarukiCache(s), KVersion, CACHE_VERSION)
    ELSE RestoreSaved(s)

\* clearDecisionTreeCache leaving the stored current question
clearDecisionTreeCache_keepsQuestion(s) ==
    LET s1 == removeItem(s, KResult)
        s2 == removeItem(s1, KHistory)
        s3 == removeItem(s2, KVersion)
    IN [s3 EXCEPT !.currentQuestion = Str("q1"), !.answerHistory = Arr(<< >>)]

clearDecisionTreeCache(s) == clearAllYarukiCache(s)

totalSteps == 7

\* the width computed by an integer division
Percentage_truncated(step) ==
    IF step.t = "number" THEN <<(step.v * 100) \div totalSteps, 1>> ELSE <<"NaN">>

\* the width updateProgress writes for a step: (step / totalSteps) * 100 as
\* the fraction <<numerator, denominator>>
Percentage(step) ==
    IF step.t = "number" THEN <<step.v * 100, totalSteps>> ELSE <<"NaN">>

\* the label updateProgress writes for a step: `${step}/${totalSteps}`
ProgressLabel(step) == <<step, totalSteps>>

updateProgress(s, step) ==
    IF ~Has(s, "progress-fill") THEN Throw(s)
    ELSE LET s1 == [s EXCEPT !.progressWidth = Percentage(step)] IN
      IF ~Has(s1, "progress-text") THEN Throw(s1)
      ELSE [s1 EXCEPT !.progressText = ProgressLabel(step)]

\* showAction removing the current-question key once the result is saved
showAction_clearsQuestion(s, node) ==
    LET s1 == setItem(s, KResult,
                      JSONstringify(Obj(<< <<"title", Get(node, "title")>>,
                                           <<"content", Get(node, "content")>> >>)))
        s2 == setItem(s1, KHistory, JSONstringify(s1.answerHistory))
        s3 == removeItem(s2, KQuestion)
    IN [s3 EXCEPT !.href = "result.html"]

\* showAction storing the content under title and the title under content
showAction_swapsFields(s, node) ==
    LET s1 == setItem(s, KResult,
                      JSONstringify(Obj(<< <<"title", Get(node, "content")>>,
                                           <<"content", Get(node, "title")>> >>)))
        s2 == setItem(s1, KHistory, JSONstringify(s1.answerHistory))
    IN [s2 EXCEPT !.href = "result.html"]

showAction(s, node) ==
    LET s1 == setItem(s, KResult,
                      JSONstringify(Obj(<< <<"title", Get(node, "title")>>,
                                           <<"content", Get(node, "content")>> >>)))
        s2 == setItem(s1, KHistory, JSONstringify(s1.answerHistory))
    IN [s2 EXCEPT !.href = "result.html"]

\* showQuestion without the branch to showAction: a terminal node is rendered
\* as a question
showQuestion_rendersActions(s, questionId) ==
    LET node == Index(s.decisionTree, questionId) IN
    IF ~Truthy(node) THEN s
    ELSE
      LET s1 == IF Has(s, "question-container")
                THEN [s EXCEPT !.questionHidden = FALSE] ELSE s
          s2 == IF Has(s1, "result-container")
                THEN [s1 EXCEPT !.resultHidden = TRUE] ELSE s1
          s3 == IF Has(s2, "question-text")
                THEN [s2 EXCEPT !.questionText = Get(node, "text")] ELSE s2
          s4 == [s3 EXCEPT !.currentQuestion = questionId]
          s5 == updateProgress(s4, Get(node, "step"))
          s6 == IF ~Has(s5, "back-btn") THEN s5
                ELSE IF Nullish(s5.answerHistory) THEN Throw(s5)
                ELSE IF Length(s5.answerHistory) = Num(0)
                     THEN [s5 EXCEPT !.backDisplay = "none"]
                     ELSE [s5 EXCEPT !.backDisplay = "block", !.backOnclick = TRUE]
          s7 == IF Has(s6, "yes-btn") /\ Has(s6, "no-btn")
                THEN [s6 EXCEPT !.yesOnclick = node, !.noOnclick = node]
                ELSE s6
      IN IF s5.thrown THEN s5 ELSE IF s6.thrown THEN s6 ELSE s7

showQuestion(s, questionId) ==
    LET node == Index(s.decisionTree, questionId) IN
    IF ~Truthy(node) THEN s
    ELSE IF StartsWithAction(questionId) THEN showAction(s, node)
    ELSE
      LET s1 == IF Has(s, "question-container")
                THEN [s EXCEPT !.questionHidden = FALSE] ELSE s
          s2 == IF Has(s1, "result-container")
                THEN [s1 EXCEPT !.resultHidden = TRUE] ELSE s1
          s3 == IF Has(s2, "question-text")
                THEN [s2 EXCEPT !.questionText = Get(node, "text")] ELSE s2
          s4 == [s3 EXCEPT !.currentQuestion = questionId]
          s5 == updateProgress(s4, Get(node, "step"))
          s6 == IF ~Has(s5, "back-btn") THEN s5
                ELSE IF Nullish(s5.answerHistory) THEN Throw(s5)
                ELSE IF Length(s5.answerHistory) = Num(0)
                     THEN [s5 EXCEPT !.backDisplay = "none"]
                     ELSE [s5 EXCEPT !.backDisplay = "block", !.backOnclick = TRUE]
          s7 == IF Has(s6, "yes-btn") /\ Has(s6, "no-btn")
                THEN [s6 EXCEPT !.yesOnclick = node, !.noOnclick = node]
                ELSE s6
      IN IF s5.thrown THEN s5 ELSE IF s6.thrown THEN s6 ELSE s7

\* handleAnswer saving the id of the answered question instead of the next id
handleAnswer_savesCurrentId(s, answer, node) ==
    LET nextId == IF answer = "yes" THEN Get(node, "yes") ELSE Get(node, "no") IN
    IF s.answerHistory.t # "array" THEN Throw(s)
    ELSE
      LET s1 == [s EXCEPT !.answerHistory =
                   Arr(Append(s.answerHistory.v,
                              Obj(<< <<"question", Get(node, "text")>>,
                                     <<"answer", Str(answer)>> >>)))]
          s2 == setItem(s1, KHistory, JSONstringify(s1.answerHistory))
          s3 == setItem(s2, KQuestion, s.currentQuestion)
      IN IF Truthy(nextId) THEN showQuestion(s3, nextId) ELSE s3

\* handleAnswer with the history saved before the new entry is pushed
handleAnswer_savesBeforePush(s, answer, node) ==
    LET nextId == IF answer = "yes" THEN Get(node, "yes") ELSE Get(node, "no") IN
    IF s.answerHistory.t # "array" THEN Throw(s)
    ELSE
      LET s1 == setItem(s, KHistory, JSONstringify(s.answerHistory))
          s2 == [s1 EXCEPT !.answerHistory =
                   Arr(Append(s.answerHistory.v,
                              Obj(<< <<"question", Get(node, "text")>>,
                                     <<"answer", Str(answer)>> >>)))]
          s3 == setItem(s2, KQuestion, nextId)
      IN IF Truthy(nextId) THEN showQuestion(s3, nextId) ELSE s3

\* handleAnswer following the yes branch whatever the answer
handleAnswer_alwaysYes(s, answer, node) ==
    LET nextId == Get(node, "yes") IN
    IF s.answerHistory.t # "array" THEN Throw(s)
    ELSE
      LET s1 == [s EXCEPT !.answerHistory =
                   Arr(Append(s.answerHistory.v,
                              Obj(<< <<"question", Get(node, "text")>>,
                                     <<"answer", Str(answer)>> >>)))]
          s2 == setItem(s1, KHistory, JSONstringify(s1.answerHistory))
          s3 == setItem(s2, KQuestion, nextId)
      IN IF Truthy(nextId) THEN showQuestion(s3, nextId) ELSE s3

handleAnswer(s, answer, node) ==
    LET nextId == IF answer = "yes" THEN Get(node, "yes") ELSE Get(node, "no") IN
    IF s.answerHistory.t # "array" THEN Throw(s)
    ELSE
      LET s1 == [s EXCEPT !.answerHistory =
                   Arr(Append(s.answerHistory.v,
                              Obj(<< <<"question", Get(node, "text")>>,
                                     <<"answer", Str(answer)>> >>)))]
          s2 == setItem(s1, KHistory, JSONstringify(s1.answerHistory))
          s3 == setItem(s2, KQuestion, nextId)
      IN IF Truthy(nextId) THEN showQuestion(s3, nextId) ELSE s3

\* the replay loop stopping one entry early
RECURSIVE ReplayLoop_stopsEarly(_, _, _, _, _)
ReplayLoop_stopsEarly(tree, h, i, previousQuestionId, previousNode) ==
    IF i >= Len(h)
    THEN [thrown |-> FALSE, id |-> previousQuestionId, node |-> previousNode]
    ELSE IF Nullish(h[i]) \/ Nullish(previousNode)
         THEN [thrown |-> TRUE, id |-> previousQuestionId, node |-> previousNode]
    ELSE LET answer == Get(h[i], "answer")
             nextId == IF answer = Str("yes") THEN Get(previousNode, "yes")
                                              ELSE Get(previousNode, "no")
         IN ReplayLoop_stopsEarly(tree, h, i + 1, nextId, Index(tree, nextId))

\* the replay loop following the branch opposite to the recorded answer
RECURSIVE ReplayLoop_swapsBranches(_, _, _, _, _)
ReplayLoop_swapsBranches(tree, h, i, previousQuestionId, previousNode) ==
    IF i > Len(h)
    THEN [thrown |-> FALSE, id |-> previousQuestionId, node |-> previousNode]
    ELSE IF Nullish(h[i]) \/ Nullish(previousNode)
         THEN [thrown |-> TRUE, id |-> previousQuestionId, node |-> previousNode]
    ELSE LET answer == Get(h[i], "answer")
             nextId == IF answer = Str("yes") THEN Get(previousNode, "no")
                                              ELSE Get(previousNode, "yes")
         IN ReplayLoop_swapsBranches(tree, h, i + 1, nextId, Index(tree, nextId))

\* the loop of goToPreviousQuestion over the entries i..Len(h) of the history:
\* [thrown, id = previousQuestionId, node = previousNode]
RECURSIVE ReplayLoop(_, _, _, _, _)
ReplayLoop(tree, h, i, previousQuestionId, previousNode) ==
    IF i > Len(h)
    THEN [thrown |-> FALSE, id |-> previousQuestionId, node |-> previousNode]
    ELSE IF Nullish(h[i]) \/ Nullish(previousNode)
         THEN [thrown |-> TRUE, id |-> previousQuestionId, node |-> previousNode]
    ELSE LET answer == Get(h[i], "answer")
             nextId == IF answer = Str("yes") THEN Get(previousNode, "yes")
                                              ELSE Get(previousNode, "no")
         IN ReplayLoop(tree, h, i + 1, nextId, Index(tree, nextId))

\* the points of a handler at which the storage has been written in part:
\* "between" the write of the history and the write of the current question,
\* and with both "written", before showQuestion is called
Points == {"between", "written"}

\* handleAnswer calling showQuestion before it writes the current question:
\* at both points only the history is written
handleAnswerUpTo_rendersFirst(s, answer, node, point) ==
    LET s1 == [s EXCEPT !.answerHistory =
                 Arr(Append(s.answerHistory.v,
                            Obj(<< <<"question", Get(node, "text")>>,
                                   <<"answer", Str(answer)>> >>)))]
    IN setItem(s1, KHistory, JSONstringify(s1.answerHistory))

\* the state handleAnswer has produced when it has run up to point: lines
\* 307-316 for "between", lines 307-317 for "written"
handleAnswerUpTo(s, answer, node, point) ==
    LET nextId == IF answer = "yes" THEN Get(node, "yes") ELSE Get(node, "no")
        s1 == [s EXCEPT !.answerHistory =
                 Arr(Append(s.answerHistory.v,
                            Obj(<< <<"question", Get(node, "text")>>,
                                   <<"answer", Str(answer)>> >>)))]
        s2 == setItem(s1, KHistory, JSONstringify(s1.answerHistory))
        s3 == setItem(s2, KQuestion, nextId)
    IN IF point = "between" THEN s2 ELSE s3

\* the state goToPreviousQuestion has produced when it has run up to the
\* write of the history (lines 326-353), for a replay that does not throw
goToPreviousQuestionUpTo(s) ==
    LET s1 == [s EXCEPT !.answerHistory =
                 Arr(SubSeq(s.answerHistory.v, 1, Len(s.answerHistory.v) - 1))]
        r == ReplayLoop(s1.decisionTree, s1.answerHistory.v, 1,
                        Str("q1"), Index(s1.decisionTree, Str("q1")))
        s2 == [s1 EXCEPT !.currentQuestion = r.id]
    IN setItem(s2, KHistory, JSONstringify(s2.answerHistory))

\* goToPreviousQuestion treating an empty history as a restart
goToPreviousQuestion_clearsOnEmpty(s) ==
    IF Nullish(s.answerHistory) THEN Throw(s)
    ELSE IF Length(s.answerHistory) = Num(0) THEN clearAllYarukiCache(s)
    ELSE IF s.answerHistory.t # "array" THEN Throw(s)
    ELSE
      LET s1 == [s EXCEPT !.answerHistory =
                   Arr(SubSeq(s.answerHistory.v, 1, Len(s.answerHistory.v) - 1))]
          r == ReplayLoop(s1.decisionTree, s1.answerHistory.v, 1,
                          Str("q1"), Index(s1.decisionTree, Str("q1")))
      IN IF r.thrown THEN Throw(s1)
         ELSE LET s2 == [s1 EXCEPT !.currentQuestion = r.id]
                  s3 == setItem(s2, KHistory, JSONstringify(s2.answerHistory))
                  s4 == setItem(s3, KQuestion, r.id)
              IN showQuestion(s4, r.id)

goToPreviousQuestion(s) ==
    IF Nullish(s.answerHistory) THEN Throw(s)
    ELSE IF Length(s.answerHistory) = Num(0) THEN s
    ELSE IF s.answerHistory.t # "array" THEN Throw(s)
    ELSE
      LET s1 == [s EXCEPT !.answerHistory =
                   Arr(SubSeq(s.answerHistory.v, 1, Len(s.answerHistory.v) - 1))]
          r == ReplayLoop(s1.decisionTree, s1.answerHistory.v, 1,
                          Str("q1"), Index(s1.decisionTree, Str("q1")))
      IN IF r.thrown THEN Throw(s1)
         ELSE LET s2 == [s1 EXCEPT !.currentQuestion = r.id]
                  s3 == setItem(s2, KHistory, JSONstringify(s2.answerHistory))
                  s4 == setItem(s3, KQuestion, r.id)
              IN showQuestion(s4, r.id)

\* resetQuionnaire leaving the stored result
resetQuionnaire_keepsResult(s) ==
    LET s1 == removeItem(s, KHistory)
        s2 == removeItem(s1, KQuestion)
        s3 == removeItem(s2, KVersion)
    IN [s3 EXCEPT !.currentQuestion = Str("q1"), !.answerHistory = Arr(<< >>),
                  !.href = "index.html"]

\* resetQuionnaire that only goes back to index.html
resetQuionnaire_onlyRedirects(s) ==
    [s EXCEPT !.href = "index.html"]

resetQuionnaire(s) ==
    [clearAllYarukiCache(s) EXCEPT !.href = "index.html"]

\* the text the HTML of the page gives an element before the script writes it
StaticText == Str("static")
ErrorText == Str("error: failed to load")

\* loadDecisionTree without the check of response.ok
loadDecisionTree_ignoresStatus(s, outcome, payload) ==
    LET catch(c) ==
          LET c1 == clearDecisionTreeCache([c EXCEPT !.thrown = FALSE])
          IN IF Has(c1, "question-text")
             THEN [c1 EXCEPT !.questionText = ErrorText] ELSE c1
    IN
    IF outcome \in {"network", "malformed"} THEN catch(s)
    ELSE
      LET s1 == [s EXCEPT !.decisionTree = payload] IN
      IF ~Truthy(payload) \/ payload.t \notin {"object", "array"} THEN catch(s1)
      ELSE LET s2 == showQuestion(s1, s1.currentQuestion)
           IN IF s2.thrown THEN catch(s2) ELSE s2

\* the part of loadDecisionTree after `await fetch`: outcome is how the fetch
\* and response.json() ended, payload the value response.json() produced
loadDecisionTree(s, outcome, payload) ==
    LET catch(c) ==
          LET c1 == clearDecisionTreeCache([c EXCEPT !.thrown = FALSE])
          IN IF Has(c1, "question-text")
             THEN [c1 EXCEPT !.questionText = ErrorText] ELSE c1
    IN
    IF outcome \in {"network", "http", "malformed"} THEN catch(s)
    ELSE
      LET s1 == [s EXCEPT !.decisionTree = payload] IN
      IF ~Truthy(payload) \/ payload.t \notin {"object", "array"} THEN catch(s1)
      ELSE LET s2 == showQuestion(s1, s1.currentQuestion)
           IN IF s2.thrown THEN catch(s2) ELSE s2

(***************************************************************************)
(* State.                                                                  *)
(***************************************************************************)
VARIABLES
    decisionTree, currentQuestion, answerHistory,  \* the globals of the script
    localStorage,       \* key -> string or null; outlives the page
    present,            \* the ids getElementById finds on the current page
    questionHidden, resultHidden, questionText, progressWidth, progressText,
    backDisplay, backOnclick, yesOnclick, noOnclick,   \* state of the elements
    href,               \* target of a navigation the script asked for, or ""
    page,               \* the document on display: "none", "index", "result"
    fetching,           \* TRUE while loadDecisionTree waits for the fetch
    treeFile,           \* the content of decision-tree.json
    indexElements,      \* the elements index.html has
    pristine,           \* TRUE iff localStorage was empty at the first visit
    session,            \* what has happened since the storage was last cleared
    interrupts,         \* the number of page lives that ended inside a handler
    last                \* the last event, the state it started in, how it ended

vars == <<decisionTree, currentQuestion, answerHistory, localStorage, present,
          questionHidden, resultHidden, questionText, progressWidth,
          progressText, backDisplay, backOnclick, yesOnclick, noOnclick,
          href, page, fetching, treeFile, indexElements, pristine, session,
          interrupts, last>>

env == <<treeFile, indexElements, pristine>>

\* the number of page lives a behaviour lets end inside a handler
MaxInterrupts == 1

\* the storage holds no result, no history and no current question: the state
\* clearAllYarukiCache (lines 204-211) and the reset of lines 182-183 leave
NoSessionData(storage) ==
    /\ storage[KResult] = Null
    /\ storage[KHistory] = Null
    /\ storage[KQuestion] = Null

\* the record of a session that starts on a cleared storage: whether a restart
\* has taken place, the entries answered in the sessions that followed a
\* restart and the terminal nodes that answers have led to, both since the
\* storage was last cleared
NewSession(restarted) ==
    [restarted |-> restarted, entries |-> {}, reached |-> {}]

\* the session record after a step that leaves the program state s
Track(s, base) ==
    IF NoSessionData(s.localStorage) THEN NewSession(base.restarted) ELSE base

\* the session record after handleAnswer(answer, node) has ended in state s
Answered(s, answer, node) ==
    LET nextId == Get(node, answer)
        entry == Obj(<< <<"question", Get(node, "text")>>,
                        <<"answer", Str(answer)>> >>)
        terminal == /\ Truthy(nextId)
                    /\ Truthy(Index(s.decisionTree, nextId))
                    /\ StartsWithAction(nextId)
    IN IF s.thrown THEN session
       ELSE [session EXCEPT !.entries = IF session.restarted
                                           THEN @ \cup {entry} ELSE @,
                            !.reached = IF terminal THEN @ \cup {nextId} ELSE @]

\* the record of an event: its name, whether its handler threw, its argument
\* (the answer or the fetch outcome), the node bound to the handler, the
\* globals and the storage it started from, and the event before it
Event(op, threw, arg, node) ==
    [op |-> op, threw |-> threw, arg |-> arg, node |-> node,
     pre |-> [q |-> currentQuestion, h |-> answerHistory, ls |-> localStorage],
     after |-> last.op]

\* the program state as the record the functions work on
St ==
    [decisionTree |-> decisionTree, currentQuestion |-> currentQuestion,
     answerHistory |-> answerHistory, localStorage |-> localStorage,
     present |-> present, questionHidden |-> questionHidden,
     resultHidden |-> resultHidden, questionText |-> questionText,
     progressWidth |-> progressWidth, progressText |-> progressText,
     backDisplay |-> backDisplay, backOnclick |-> backOnclick,
     yesOnclick |-> yesOnclick, noOnclick |-> noOnclick,
     href |-> href, thrown |-> FALSE]

\* the next state holds the program state s
Becomes(s) ==
    /\ decisionTree' = s.decisionTree
    /\ currentQuestion' = s.currentQuestion
    /\ answerHistory' = s.answerHistory
    /\ localStorage' = s.localStorage
    /\ present' = s.present
    /\ questionHidden' = s.questionHidden
    /\ resultHidden' = s.resultHidden
    /\ questionText' = s.questionText
    /\ progressWidth' = s.progressWidth
    /\ progressText' = s.progressText
    /\ backDisplay' = s.backDisplay
    /\ backOnclick' = s.backOnclick
    /\ yesOnclick' = s.yesOnclick
    /\ noOnclick' = s.noOnclick
    /\ href' = s.href

\* the elements of result.html the script looks up
ResultElements == {"result-container"}
IndexFull == Elements \ {"result-container"}
IndexPages == {IndexFull,
               IndexFull \ {"back-btn"},
               IndexFull \ {"progress-fill", "progress-text"}}

\* the state a fresh document starts the script in (lines 155-157, 214-222)
FreshDocument(storage, elems) ==
    [decisionTree |-> Obj(<< >>), currentQuestion |-> Str("q1"),
     answerHistory |-> Arr(<< >>), localStorage |-> storage,
     present |-> elems, questionHidden |-> FALSE,
     resultHidden |-> FALSE, questionText |-> StaticText,
     progressWidth |-> <<"static">>, progressText |-> <<"static">>,
     backDisplay |-> "static", backOnclick |-> FALSE,
     yesOnclick |-> Null, noOnclick |-> Null,
     href |-> "", thrown |-> FALSE]

\* the top level of the script, run when a document has loaded: up to the
\* `await fetch` of loadDecisionTree on index.html (lines 399-403)
ScriptStart(target) ==
    LET elems == IF target = "index" THEN indexElements ELSE ResultElements
        s0 == FreshDocument(localStorage, elems)
        s1 == IF Has(s0, "question-container") THEN loadStateFromStorage(s0) ELSE s0
    IN /\ Becomes(s1)
       /\ page' = target
       /\ fetching' = Has(s0, "question-container")
       /\ last' = Event("start", FALSE, target, Null)
       /\ session' = Track(s1, session)
       /\ UNCHANGED <<env, interrupts>>

(***************************************************************************)
(* What localStorage may hold when the first page opens: nothing, or what  *)
(* an earlier visit, an older version of the script or an edit left there. *)
(***************************************************************************)
Entry(q, a) == Obj(<< <<"question", Str(q)>>, <<"answer", Str(a)>> >>)
HistoryText(h) == JSONstringify(Arr(h))
ResultText(title, content) ==
    JSONstringify(Obj(<< <<"title", Str(title)>>, <<"content", Str(content)>> >>))

InitVersions == {Null, Str("1"), CACHE_VERSION}
InitQuestions == {Null, Str("q2"), Str("q3"), Str("zz"), Str("action_y")}
InitHistories ==
    {Null,
     HistoryText(<< Entry("T1", "yes") >>),
     HistoryText(<< Entry("T1", "yes"), Entry("T2", "no") >>),
     HistoryText(<< Null, Entry("T2", "yes") >>),
     Str("not json"), Str("null"), JsonText(<< N(5) >>)}
InitResults == {Null, ResultText("RY", "CY")}

MkStorage(ver, q, h, r) ==
    [k \in StorageKeys |->
        CASE k = KVersion -> ver
          [] k = KQuestion -> q
          [] k = KHistory -> h
          [] k = KResult -> r
          [] OTHER -> Str("other-value")]

EmptyStorage == MkStorage(Null, Null, Null, Null)

InitStorages ==
    {EmptyStorage}
    \cup {MkStorage(CACHE_VERSION, q, h, r) :
        q \in InitQuestions, h \in InitHistories, r \in InitResults}
    \cup {MkStorage(ver, q, HistoryText(<< Entry("T1", "yes") >>), r) :
        ver \in InitVersions \ {CACHE_VERSION}, q \in {Null, Str("q2")},
        r \in InitResults}

\* no document is open yet
Unopened ==
    /\ decisionTree = Obj(<< >>)
    /\ currentQuestion = Str("q1")
    /\ answerHistory = Arr(<< >>)
    /\ present = {}
    /\ questionHidden = FALSE
    /\ resultHidden = FALSE
    /\ questionText = StaticText
    /\ progressWidth = <<"static">>
    /\ progressText = <<"static">>
    /\ backDisplay = "static"
    /\ backOnclick = FALSE
    /\ yesOnclick = Null
    /\ noOnclick = Null
    /\ href = "index.html"
    /\ page = "none"
    /\ fetching = FALSE
    /\ pristine = (localStorage = EmptyStorage)
    /\ session = NewSession(FALSE)
    /\ interrupts = 0
    /\ last = [op |-> "init", threw |-> FALSE, arg |-> "", node |-> Null,
               pre |-> [q |-> currentQuestion, h |-> answerHistory,
                        ls |-> localStorage],
               after |-> "init"]

Init ==
    /\ treeFile \in Trees
    /\ indexElements \in IndexPages
    /\ localStorage \in InitStorages
    /\ Unopened

(***************************************************************************)
(* Events.                                                                 *)
(***************************************************************************)
\* the navigation the script asked for (or the first visit) completes
Navigate ==
    /\ href # ""
    /\ ScriptStart(IF href = "index.html" THEN "index" ELSE "result")

\* the user reloads or reopens index.html
Reload ==
    /\ page # "none"
    /\ ScriptStart("index")

FetchOutcomes == {"ok", "network", "http", "malformed", "invalid"}

\* the fetch of decision-tree.json and response.json() complete
FetchDone ==
    /\ fetching
    /\ \E outcome \in FetchOutcomes :
         LET payload == IF outcome = "invalid" THEN Null ELSE treeFile
             s == loadDecisionTree(St, outcome, payload)
         IN /\ Becomes(s)
            /\ session' = Track(s, session)
            /\ last' = Event("fetch", FALSE, outcome, Null)
    /\ fetching' = FALSE
    /\ UNCHANGED <<page, env, interrupts>>

\* the history has room for one more answer
Room == answerHistory.t = "array" => Len(answerHistory.v) < MaxHistory

\* a click on the yes button (answer = "yes") or the no button
Click(answer) ==
    LET node == IF answer = "yes" THEN yesOnclick ELSE noOnclick IN
    /\ node # Null
    /\ Room
    /\ LET s == handleAnswer(St, answer, node)
       IN /\ Becomes([s EXCEPT !.thrown = FALSE])
          /\ session' = Answered(s, answer, node)
          /\ last' = Event("answer", s.thrown, answer, node)
    /\ UNCHANGED <<page, fetching, env, interrupts>>

ClickYes == Click("yes")
ClickNo == Click("no")

\* a click on the back button, which can be clicked while it is displayed
ClickBack ==
    /\ backOnclick
    /\ backDisplay # "none"
    /\ LET s == goToPreviousQuestion(St)
       IN /\ Becomes([s EXCEPT !.thrown = FALSE])
          /\ last' = Event("back", s.thrown, "", Null)
    /\ UNCHANGED <<page, fetching, env, session, interrupts>>

\* the state of a page life that has ended: nothing of the document is left,
\* the storage is; index.html is opened next
Closed(storage) ==
    [FreshDocument(storage, {}) EXCEPT !.href = "index.html"]

\* the page life ends (the tab is closed or killed) while handleAnswer runs,
\* at one of the points where the storage is written in part
AnswerInterrupted ==
    \E answer \in {"yes", "no"}, point \in Points :
      LET node == IF answer = "yes" THEN yesOnclick ELSE noOnclick
          entry == Obj(<< <<"question", Get(node, "text")>>,
                          <<"answer", Str(answer)>> >>)
      IN /\ interrupts < MaxInterrupts
         /\ node # Null
         /\ Room
         /\ answerHistory.t = "array"
         /\ Becomes(Closed(handleAnswerUpTo(St, answer, node, point).localStorage))
         /\ session' = [session EXCEPT !.entries = IF session.restarted
                                                   THEN @ \cup {entry} ELSE @]
         /\ last' = Event("answer-" \o point, FALSE, answer, node)
         /\ page' = "none"
         /\ fetching' = FALSE
         /\ interrupts' = interrupts + 1
         /\ UNCHANGED env

\* the page life ends while goToPreviousQuestion runs, between the write of
\* the history and the write of the current question
BackInterrupted ==
    /\ interrupts < MaxInterrupts
    /\ backOnclick
    /\ backDisplay # "none"
    /\ answerHistory.t = "array"
    /\ answerHistory.v # << >>
    /\ ~ReplayLoop(decisionTree,
                   SubSeq(answerHistory.v, 1, Len(answerHistory.v) - 1), 1,
                   Str("q1"), Index(decisionTree, Str("q1"))).thrown
    /\ Becomes(Closed(goToPreviousQuestionUpTo(St).localStorage))
    /\ last' = Event("back-between", FALSE, "", Null)
    /\ page' = "none"
    /\ fetching' = FALSE
    /\ interrupts' = interrupts + 1
    /\ UNCHANGED <<env, session>>

\* the restart button of result.html
Restart ==
    /\ page = "result"
    /\ Becomes(resetQuionnaire(St))
    /\ session' = NewSession(TRUE)
    /\ last' = Event("restart", FALSE, "", Null)
    /\ UNCHANGED <<page, fetching, env, interrupts>>

Next ==
    \/ Navigate
    \/ Reload
    \/ FetchDone
    \/ ClickYes
    \/ ClickNo
    \/ ClickBack
    \/ Restart

Spec == Init /\ [][Next]_vars

\* the first visit finds an empty storage
InitFresh == Init /\ localStorage = EmptyStorage

\* the events of Next, and the page lives that end inside a handler
NextInterrupted ==
    \/ Next
    \/ AnswerInterrupted
    \/ BackInterrupted

\* the visits that start on an empty storage, with page lives that may end
\* inside a handler
SpecInterrupted == InitFresh /\ [][NextInterrupted]_vars

\* the steps a question node of decision-tree.json is given
Steps == 1..totalSteps

\* a tree of two question nodes with the steps a and b
StepTree(a, b) ==
    Obj(<< <<"q1", Question(a, "T1", "q2", "action_x")>>,
           <<"q2", Question(b, "T2", "action_y", "action_x")>>,
           <<"action_x", Action("RX", "CX")>>,
           <<"action_y", Action("RY", "CY")>> >>)

\* trees of two and of three question nodes, with every step of Steps at q1
\* and at q2
StepTrees ==
    {StepTree(a, (a % totalSteps) + 1) : a \in Steps} \cup {TreeWellFormed}

\* the first visit of a full index.html, for each of the trees of StepTrees
InitProgress ==
    /\ treeFile \in StepTrees
    /\ indexElements = IndexFull
    /\ localStorage = EmptyStorage
    /\ Unopened

\* the visits that show the question nodes of the trees of StepTrees
SpecProgress == InitProgress /\ [][Next]_vars

\* the first visit of index.html on an empty storage, for each of the trees
\* of StepTrees (every branch leads to a node, no branch leads back)
InitAnswering ==
    /\ treeFile \in StepTrees
    /\ indexElements \in IndexPages
    /\ localStorage = EmptyStorage
    /\ Unopened

\* the events of a visit in which the user only answers
NextAnswering ==
    \/ Navigate
    \/ FetchDone
    \/ ClickYes
    \/ ClickNo

\* a click on the yes or the no button runs handleAnswer: a handler is wired
\* and the history has room
CanAnswer == (yesOnclick # Null \/ noOnclick # Null) /\ Room

\* the user keeps answering: weak fairness of the answers,
\* WF_vars(ClickYes \/ ClickNo), with CanAnswer for the enabling condition
KeepsAnswering ==
    \/ []<>~CanAnswer
    \/ []<><<ClickYes \/ ClickNo>>_vars

\* the visits of a user who keeps answering: a button that stays clickable
\* is clicked
SpecAnswering == InitAnswering /\ [][NextAnswering]_vars /\ KeepsAnswering

TypeOK ==
    /\ page \in {"none", "index", "result"}
    /\ href \in {"", "index.html", "result.html"}
    /\ \A k \in StorageKeys : localStorage[k] = Null \/ IsString(localStorage[k])

(***************************************************************************)
(* Properties.                                                             *)
(***************************************************************************)
\* a history as answers write it: a sequence of {question, answer} entries
WellFormedHistory(h) ==
    /\ h.t = "array"
    /\ \A i \in 1..Len(h.v) :
         /\ h.v[i].t = "object"
         /\ Get(h.v[i], "question").t = "string"
         /\ Get(h.v[i], "answer") \in {Str("yes"), Str("no")}

\* a node id as a well-formed tree gives it: a non-empty string
WellFormedId(id) == id.t = "string" /\ id.v # ""

\* the branch the answer of event e selects on the node it was given on
NextIdOf(e) == Get(e.node, e.arg)

Prefix(h, k) == SubSeq(h, 1, k)

\* the id reached from the root q1 by following, entry by entry, the branch
\* each answer of h records
RECURSIVE Replay(_, _)
Replay(tree, h) ==
    IF h = << >> THEN Str("q1")
    ELSE LET from == Replay(tree, Prefix(h, Len(h) - 1))
             answer == Get(h[Len(h)], "answer")
         IN Get(Index(tree, from), IF answer = Str("yes") THEN "yes" ELSE "no")

\* every entry of h answers a node of the tree with yes or no
OnTree(tree, h) ==
    \A i \in 1..Len(h) :
      /\ h[i].t = "object"
      /\ Get(h[i], "answer") \in {Str("yes"), Str("no")}
      /\ Truthy(Index(tree, Replay(tree, Prefix(h, i - 1))))

\* C1: round-trip persistence.  When an answer has left the well-formed
\* history h in memory and persisted it with the well-formed id of the chosen
\* branch, and the version tag is current, the next load of index.html
\* restores history h and that id.
RoundTripPersistence ==
    [][ ( /\ last.op = "answer"
          /\ WellFormedHistory(answerHistory)
          /\ WellFormedId(NextIdOf(last))
          /\ localStorage[KVersion] = CACHE_VERSION
          /\ last'.op = "start" /\ page' = "index" )
        => ( /\ answerHistory' = answerHistory
             /\ currentQuestion' = NextIdOf(last) ) ]_vars

\* a load that followed an answer restored a two-entry history and q3
RoundTripWitness ==
    /\ last.op = "start" /\ last.after = "answer" /\ page = "index"
    /\ WellFormedHistory(answerHistory)
    /\ Len(answerHistory.v) = 2
    /\ last.pre.h = answerHistory
    /\ currentQuestion = Str("q3")

\* C2: replay determinism.  A goBack on a non-empty history whose truncation
\* is a path of the tree leaves the history without its last entry and the
\* current node id the replay of that truncated history from q1; n - k such
\* steps from H therefore leave H[0..k) and its replay.
ReplayDeterminism ==
    [][ ( /\ last'.op = "back"
          /\ answerHistory.t = "array"
          /\ Len(answerHistory.v) > 0
          /\ OnTree(decisionTree, Prefix(answerHistory.v, Len(answerHistory.v) - 1)) )
        => ( /\ answerHistory' =
                  Arr(Prefix(answerHistory.v, Len(answerHistory.v) - 1))
             /\ currentQuestion' = Replay(decisionTree, answerHistory'.v) ) ]_vars

\* two goBacks in a row went from a three-entry history to q2
ReplayWitness ==
    /\ last.op = "back" /\ last.after = "back" /\ ~last.threw
    /\ Len(last.pre.h.v) = 2
    /\ answerHistory.t = "array" /\ Len(answerHistory.v) = 1
    /\ currentQuestion = Str("q2")

\* the machine is in a Question state: a question has been shown on
\* index.html, its answer handlers are wired and no navigation is pending
InQuestion == page = "index" /\ ~fetching /\ href = "" /\ yesOnclick # Null

\* every branch of every question node of the tree is a node of the tree
WellFormedTree(tree) ==
    \A k \in Keys(tree) \ ActionIds :
      /\ Get(Get(tree, k), "yes").t = "string"
      /\ Get(Get(tree, k), "yes").v \in Keys(tree)
      /\ Get(Get(tree, k), "no").t = "string"
      /\ Get(Get(tree, k), "no").v \in Keys(tree)

ReplayConsistent ==
    /\ answerHistory.t = "array"
    /\ currentQuestion = Replay(decisionTree, answerHistory.v)
    /\ yesOnclick = Index(decisionTree, currentQuestion)

AnswerAppends ==
    [][ (last'.op = "answer" /\ answerHistory.t = "array") =>
          LET node == last'.node
              choice == last'.arg
              next == Get(node, choice)
          IN /\ ~last'.threw
             /\ answerHistory' =
                  Arr(Append(answerHistory.v,
                             Obj(<< <<"question", Get(node, "text")>>,
                                    <<"answer", Str(choice)>> >>)))
             /\ JSONparse(localStorage'[KHistory]) =
                  [ok |-> TRUE, val |-> answerHistory']
             /\ (next.t = "string" => localStorage'[KQuestion] = next) ]_vars

\* the second answer was appended to a one-entry history and q3 persisted
AnswerAppendsWitness ==
    /\ last.op = "answer" /\ last.arg = "yes"
    /\ last.pre.h.t = "array" /\ Len(last.pre.h.v) = 1
    /\ Len(answerHistory.v) = 2
    /\ Get(answerHistory.v[2], "question") = Str("T2")
    /\ localStorage[KQuestion] = Str("q3")

\* C5: an answer whose target starts with "action_" and is a node of the
\* tree persists that node's {title, content} as result and the full history
\* including this answer, leaves the terminal id under current-question and
\* asks for result.html; an answer whose target is a question node of the
\* tree makes it the current node, wires the answer handlers to it and
\* persists no result.
TerminalTransition ==
    [][ (last'.op = "answer" /\ answerHistory.t = "array") =>
          LET next == Get(last'.node, last'.arg)
              target == Index(decisionTree, next)
          IN /\ (StartsWithAction(next) /\ Truthy(target)) =>
                  /\ JSONparse(localStorage'[KResult]) =
                       [ok |-> TRUE,
                        val |-> Obj(<< <<"title", Get(target, "title")>>,
                                       <<"content", Get(target, "content")>> >>)]
                  /\ Len(answerHistory'.v) = Len(answerHistory.v) + 1
                  /\ JSONparse(localStorage'[KHistory]) =
                       [ok |-> TRUE, val |-> answerHistory']
                  /\ localStorage'[KQuestion] = next
                  /\ href' = "result.html"
             /\ (~StartsWithAction(next) /\ Truthy(target)) =>
                  /\ currentQuestion' = next
                  /\ yesOnclick' = target /\ noOnclick' = target
                  /\ localStorage'[KResult] = localStorage[KResult]
                  /\ href' = href ]_vars

\* the third answer reached action_z: its result and the three answers are
\* persisted, current-question holds action_z
TerminalWitness ==
    /\ last.op = "answer" /\ href = "result.html"
    /\ NextIdOf(last) = Str("action_z")
    /\ localStorage[KResult] = ResultText("RZ", "CZ")
    /\ localStorage[KQuestion] = Str("action_z")
    /\ Len(answerHistory.v) = 3
    /\ localStorage[KHistory] = JSONstringify(answerHistory)

\* the last event was an answer that led from a Question state to another
\* question, which is now shown
AnswerLedToQuestion ==
    /\ last.op = "answer" /\ ~last.threw
    /\ InQuestion
    /\ currentQuestion = NextIdOf(last)
    /\ currentQuestion # last.pre.q

\* C6 as stated: from any Question state, an answer that leads to another
\* question followed at once by goBack restores the current node id and the
\* history the answer started from.
GoBackUndoesEverywhere ==
    [][ (AnswerLedToQuestion /\ last'.op = "back") =>
          (currentQuestion' = last.pre.q /\ answerHistory' = last.pre.h) ]_vars

\* C6: from a Question state whose current node id is the replay of its
\* history, an answer that leads to another question followed at once by
\* goBack restores the current node id and the history the answer started
\* from.
GoBackUndoes ==
    [][ ( /\ AnswerLedToQuestion
          /\ last.pre.h.t = "array"
          /\ last.pre.q = Replay(decisionTree, last.pre.h.v)
          /\ last'.op = "back" ) =>
          (currentQuestion' = last.pre.q /\ answerHistory' = last.pre.h) ]_vars

\* the goBack that followed the answer given at q2 is back at q2 with the one
\* answer that leads there
GoBackUndoesWitness ==
    /\ last.op = "back" /\ last.after = "answer" /\ ~last.threw
    /\ last.pre.q = Str("q3") /\ Len(last.pre.h.v) = 2
    /\ currentQuestion = Str("q2")
    /\ currentQuestion = Replay(decisionTree, answerHistory.v)
    /\ Len(answerHistory.v) = 1

\* the globals, the storage, the elements and the pending navigation
program == <<decisionTree, currentQuestion, answerHistory, localStorage,
             present, questionHidden, resultHidden, questionText,
             progressWidth, progressText, backDisplay, backOnclick,
             yesOnclick, noOnclick, href>>

\* C7: goBack with an empty history changes nothing: not the globals, not a
\* key of the storage, not an element (no state is entered), and it does not
\* throw.
GoBackEmptyNoOp ==
    [][ (last'.op = "back" /\ answerHistory = Arr(<< >>)) =>
          (UNCHANGED program /\ ~last'.threw) ]_vars

\* goBack has run on an empty history
GoBackEmptyWitness ==
    /\ last.op = "back"
    /\ last.pre.h = Arr(<< >>)
    /\ answerHistory = Arr(<< >>)

\* none of the four session keys is in the storage
NoSessionKeys(storage) == \A k \in YarukiKeys : storage[k] = Null

\* C8: a load that finds none of the persisted keys leaves q1 and an empty
\* history in memory and writes the current version tag; after a successful
\* tree load the state is still q1 with an empty history, and when q1 is a
\* node of the tree and the page has its progress elements, q1 is the
\* question shown, with the answer handlers wired to it.
FreshLoad ==
    /\ (last.op = "start" /\ page = "index" /\ NoSessionKeys(last.pre.ls)) =>
         /\ currentQuestion = Str("q1")
         /\ answerHistory = Arr(<< >>)
         /\ localStorage = [last.pre.ls EXCEPT ![KVersion] = CACHE_VERSION]
    /\ ( /\ last.op = "fetch" /\ last.arg = "ok"
         /\ NoSessionKeys([last.pre.ls EXCEPT ![KVersion] = Null])
         /\ last.pre.ls[KVersion] = CACHE_VERSION ) =>
         /\ currentQuestion = Str("q1")
         /\ answerHistory = Arr(<< >>)
         /\ ( /\ Truthy(Get(decisionTree, "q1"))
              /\ {"progress-fill", "progress-text", "question-text",
                  "yes-btn", "no-btn"} \subseteq present ) =>
              /\ InQuestion
              /\ questionText = Get(Get(decisionTree, "q1"), "text")
              /\ yesOnclick = Get(decisionTree, "q1")
              /\ localStorage = last.pre.ls

\* the first visit found an empty storage, the tree has loaded, q1 is shown
FreshLoadWitness ==
    /\ pristine
    /\ last.op = "fetch" /\ last.arg = "ok" /\ last.after = "start"
    /\ last.pre.ls = [EmptyStorage EXCEPT ![KVersion] = CACHE_VERSION]
    /\ InQuestion
    /\ currentQuestion = Str("q1") /\ answerHistory = Arr(<< >>)
    /\ questionText = Str("T1")

\* the last event was a load of index.html that found a version tag other
\* than the expected one, or none
StaleLoad ==
    last.op = "start" /\ page = "index" /\ last.pre.ls[KVersion] # CACHE_VERSION

\* C9: a load that finds a version tag different from the expected one, or
\* none, removes current-question, answer-history and result, leaves q1 and
\* an empty history in memory whatever those keys held, and leaves the
\* expected version under cache-version.
VersionMismatchReset ==
    StaleLoad =>
      /\ localStorage[KQuestion] = Null
      /\ localStorage[KHistory] = Null
      /\ localStorage[KResult] = Null
      /\ localStorage[KVersion] = CACHE_VERSION
      /\ currentQuestion = Str("q1")
      /\ answerHistory = Arr(<< >>)

\* a load found version "1" with a question, a history and a result stored
VersionMismatchWitness ==
    /\ StaleLoad
    /\ last.pre.ls[KVersion] = Str("1")
    /\ last.pre.ls[KQuestion] = Str("q2")
    /\ last.pre.ls[KHistory] # Null
    /\ last.pre.ls[KResult] # Null
    /\ localStorage[KVersion] = CACHE_VERSION

\* the version tags a stale storage may hold: none, or an older version
StaleTags == {Null, Str("1")}

\* the state loadStateFromStorage leaves when a fresh document runs it on the
\* current storage with the version tag replaced by tag
LoadAgain(tag) ==
    loadStateFromStorage(
        FreshDocument([localStorage EXCEPT ![KVersion] = tag], present))

\* C10: after a load with a stale version tag, a second load with the tag
\* made stale again yields q1 and an empty history as the first did, and
\* leaves the storage as the first load left it.
VersionResetIdempotent ==
    StaleLoad =>
      /\ currentQuestion = Str("q1")
      /\ answerHistory = Arr(<< >>)
      /\ \A tag \in StaleTags :
           /\ LoadAgain(tag).currentQuestion = Str("q1")
           /\ LoadAgain(tag).answerHistory = Arr(<< >>)
           /\ LoadAgain(tag).localStorage = localStorage

\* a stale load has reset a storage that held a session
VersionResetWitness ==
    /\ StaleLoad
    /\ last.pre.ls[KVersion] = Null
    /\ last.pre.ls[KQuestion] = Str("q2")
    /\ last.pre.ls[KHistory] # Null
    /\ LoadAgain(Str("1")).localStorage = localStorage

\* the last event was a load of index.html that found the expected version tag
CurrentLoad ==
    last.op = "start" /\ page = "index" /\ last.pre.ls[KVersion] = CACHE_VERSION

\* C11: a load that finds the expected version tag, a result and no
\* current-question leaves q1 and an empty history in memory and neither
\* result nor answer-history in the storage.
InconsistentSessionReset ==
    ( /\ CurrentLoad
      /\ last.pre.ls[KResult] # Null
      /\ last.pre.ls[KQuestion] = Null ) =>
      /\ currentQuestion = Str("q1")
      /\ answerHistory = Arr(<< >>)
      /\ localStorage[KResult] = Null
      /\ localStorage[KHistory] = Null

\* a load found a result and a two-entry history but no current-question
InconsistentSessionWitness ==
    /\ CurrentLoad
    /\ last.pre.ls[KQuestion] = Null
    /\ last.pre.ls[KResult] = ResultText("RY", "CY")
    /\ last.pre.ls[KHistory] =
         HistoryText(<< Entry("T1", "yes"), Entry("T2", "no") >>)
    /\ localStorage[KHistory] = Null

\* C12: a load that finds the expected version tag and a stored history that
\* is not valid JSON leaves an empty history in memory, the current node id
\* equal to the stored current-question when there is one (q1 otherwise), and
\* the stored current-question as it was.
UnparseableHistory ==
    ( /\ CurrentLoad
      /\ last.pre.ls[KHistory] # Null
      /\ ~JSONparse(last.pre.ls[KHistory]).ok ) =>
      /\ answerHistory = Arr(<< >>)
      /\ localStorage[KQuestion] = last.pre.ls[KQuestion]
      /\ currentQuestion = IF last.pre.ls[KQuestion] # Null
                           THEN last.pre.ls[KQuestion] ELSE Str("q1")

\* a load found the history "not json" next to the current question q2
UnparseableHistoryWitness ==
    /\ CurrentLoad
    /\ last.pre.ls[KHistory] = Str("not json")
    /\ last.pre.ls[KQuestion] = Str("q2")
    /\ currentQuestion = Str("q2")
    /\ localStorage[KQuestion] = Str("q2")
    /\ localStorage[KHistory] = Str("not json")

\* C13: a load that finds the expected version tag and a stored history that
\* is present but is not the serialization of a sequence of {question, answer}
\* entries (unparseable, or parsing to a number, null or a sequence with
\* another kind of element) leaves an empty history in memory; so the
\* in-memory history is a sequence after every load.
WrongStructureHistoryReset ==
    /\ ( /\ CurrentLoad
         /\ Truthy(last.pre.ls[KHistory])
         /\ ~ ( /\ JSONparse(last.pre.ls[KHistory]).ok
                /\ WellFormedHistory(JSONparse(last.pre.ls[KHistory]).val) ) )
       => answerHistory = Arr(<< >>)
    /\ (last.op = "start" /\ page = "index") => answerHistory.t = "array"

\* the ways the load of the tree fails before a question is looked up: a
\* transport error, a non-success status, a body that is not JSON, a payload
\* that is not a non-null object
FailedOutcomes == {"network", "http", "malformed", "invalid"}

CanShowRoot ==
    /\ Truthy(Get(treeFile, "q1"))
    /\ {"progress-fill", "progress-text", "question-text", "yes-btn", "no-btn"}
         \subseteq present

\* C15: restart removes the four session keys, resets memory to q1 with an
\* empty history and asks for index.html; the load of index.html that follows
\* finds nothing to restore, and when the tree then loads (with q1 in it, on a
\* page with its elements) q1 is the question shown, with an empty history.
RestartResets ==
    /\ [] ( last.op = "restart" =>
              /\ NoSessionKeys(localStorage)
              /\ currentQuestion = Str("q1")
              /\ answerHistory = Arr(<< >>)
              /\ href = "index.html" )
    /\ [] ( (last.op = "start" /\ last.after = "restart" /\ page = "index") =>
              /\ currentQuestion = Str("q1")
              /\ answerHistory = Arr(<< >>)
              /\ NoSessionData(localStorage) )
    /\ [][ ( /\ last.op = "start" /\ last.after = "restart" /\ page = "index"
             /\ last'.op = "fetch" /\ last'.arg = "ok"
             /\ CanShowRoot ) =>
             /\ InQuestion'
             /\ currentQuestion' = Str("q1")
             /\ answerHistory' = Arr(<< >>)
             /\ questionText' = Get(Get(decisionTree', "q1"), "text")
             /\ yesOnclick' = Get(decisionTree', "q1")
             /\ backDisplay' # "block" ]_vars

\* after a session that ended on the result page and a restart, index.html
\* has loaded again and shows q1
RestartWitness ==
    /\ session.restarted
    /\ last.op = "fetch" /\ last.arg = "ok" /\ last.after = "start"
    /\ InQuestion
    /\ currentQuestion = Str("q1")
    /\ questionText = Str("T1")
    /\ localStorage = [EmptyStorage EXCEPT ![KVersion] = CACHE_VERSION]

\* the step is one that clears the session: a restart, a failed tree load, a
\* load that finds a stale version tag, or a load that finds a result without
\* a current question
ClearingStep ==
    \/ last'.op = "restart"
    \/ last'.op = "fetch" /\ last'.arg \in FailedOutcomes
    \/ /\ last'.op = "start" /\ page' = "index"
       /\ \/ localStorage[KVersion] # CACHE_VERSION
          \/ localStorage[KResult] # Null /\ localStorage[KQuestion] = Null

\* C16: every operation that clears the session leaves every key of the
\* storage other than the four session keys with the value it had.
ClearKeepsOtherKeys ==
    [][ ClearingStep =>
          \A k \in StorageKeys \ YarukiKeys : localStorage'[k] = localStorage[k]
      ]_vars

\* a restart has removed a stored session and the other key is still there
ClearKeepsOtherKeysWitness ==
    /\ last.op = "restart"
    /\ last.pre.ls[KResult] # Null
    /\ last.pre.ls[KHistory] # Null
    /\ NoSessionKeys(localStorage)
    /\ localStorage[KOther] = Str("other-value")
    /\ last.pre.ls[KOther] = Str("other-value")

\* every element of the history value h is an entry answered since the last
\* restart
OnlyNewEntries(h) ==
    /\ h.t = "array"
    /\ \A i \in 1..Len(h.v) : h.v[i] \in session.entries

\* C17: once a restart has taken place, the in-memory history and the
\* persisted history hold only entries answered since the restart, and a
\* result is persisted only if an answer has led to a terminal node since.
SessionIsolation ==
    session.restarted =>
      /\ OnlyNewEntries(answerHistory)
      /\ localStorage[KHistory] # Null =>
           /\ JSONparse(localStorage[KHistory]).ok
           /\ OnlyNewEntries(JSONparse(localStorage[KHistory]).val)
      /\ localStorage[KResult] # Null => session.reached # {}

\* a session that followed a restart has answered q1 and q2 and shows q3, no
\* result being stored
SessionIsolationWitness ==
    /\ session.restarted
    /\ InQuestion
    /\ currentQuestion = Str("q3")
    /\ answerHistory = Arr(<< Entry("T1", "yes"), Entry("T2", "yes") >>)
    /\ localStorage[KHistory] = JSONstringify(answerHistory)
    /\ localStorage[KResult] = Null
    /\ session.reached = {}

\* v is the id of a node of tree
IsKey(tree, v) == v.t = "string" /\ v.v \in Keys(tree)

\* node is one of the question nodes of tree
QuestionNodeOf(tree, node) ==
    \E k \in Keys(tree) \ ActionIds : Get(tree, k) = node

\* C18: on a tree whose every yes/no target is a key of the tree, an answer
\* given on a question node with either choice selects an id that is a key of
\* the tree and enters the state of that id: the result page of a terminal
\* node, or the question of that id as the current one. An answer whose
\* handler throws leaves the current question, itself a key of the tree.
NoDanglingTransition ==
    [][ ( /\ last'.op = "answer"
          /\ WellFormedTree(decisionTree)
          /\ QuestionNodeOf(decisionTree, last'.node) ) =>
          LET id == NextIdOf(last') IN
          /\ IsKey(decisionTree, id)
          /\ IF last'.threw
             THEN /\ currentQuestion' = currentQuestion
                  /\ IsKey(decisionTree, currentQuestion')
             ELSE IF StartsWithAction(id)
             THEN /\ href' = "result.html"
                  /\ localStorage'[KQuestion] = id
                  /\ localStorage'[KResult] # Null
             ELSE /\ currentQuestion' = id
                  /\ localStorage'[KQuestion] = id
                  /\ yesOnclick' = Get(decisionTree, id.v) ]_vars

\* on the well-formed tree, "no" at q3 has led to the result page of action_x
NoDanglingWitness ==
    /\ last.op = "answer" /\ last.arg = "no" /\ ~last.threw
    /\ decisionTree = TreeWellFormed
    /\ last.pre.q = Str("q3")
    /\ localStorage[KQuestion] = Str("action_x")
    /\ href = "result.html"

\* the tree has loaded: index.html is on display and decisionTree holds the
\* content of decision-tree.json
TreeLoaded == page = "index" /\ ~fetching /\ decisionTree = treeFile

\* C19: once the tree has loaded, the in-memory current node id is a key of
\* the tree, whatever current-question the storage held at load time and
\* after every answer and goBack.
CurrentNodeIsKey ==
    TreeLoaded => IsKey(decisionTree, currentQuestion)

\* the text showAction stores for the node of id in the tree file
ResultOf(id) ==
    JSONstringify(Obj(<< <<"title", Get(Index(treeFile, id), "title")>>,
                         <<"content", Get(Index(treeFile, id), "content")>> >>))

\* C20: starting from empty storage, a result is persisted only if an answer
\* has led to a terminal node since the storage was last cleared, and it is
\* the {title, content} of such a node.
ResultOnlyAfterTerminal ==
    (pristine /\ localStorage[KResult] # Null) =>
      \E id \in session.reached :
        /\ StartsWithAction(id)
        /\ localStorage[KResult] = ResultOf(id)

\* starting from empty storage, "no" at q2 has stored the result of action_y
ResultOnlyAfterTerminalWitness ==
    /\ pristine
    /\ last.op = "answer" /\ last.arg = "no" /\ last.pre.q = Str("q2")
    /\ last.pre.ls[KResult] = Null
    /\ session.reached = {Str("action_y")}
    /\ localStorage[KResult] = ResultText("RY", "CY")

\* the branch the answer of the step selects is absent, or is not the id of a
\* node of the tree
BranchMissing ==
    \/ ~Truthy(NextIdOf(last'))
    \/ ~IsKey(decisionTree, NextIdOf(last'))

\* C21: an answer whose branch is absent or falsy, or whose target id is not
\* a key of the tree, makes no transition: the in-memory current node id
\* stays what it was, no result page is asked for, no result is persisted and
\* nothing is thrown.
FailStatic ==
    [][ (last'.op = "answer" /\ BranchMissing) =>
          /\ ~last'.threw
          /\ currentQuestion' = currentQuestion
          /\ href' = href
          /\ localStorage'[KResult] = localStorage[KResult] ]_vars

\* C22: entering a Question state does not throw when display elements are
\* absent from the page: when the tree has loaded and the restored id is a
\* question of the tree, that id is the current node id and the session
\* is left as it was restored, whichever elements the page has.
RenderDegrades ==
    ( /\ last.op = "fetch" /\ last.arg = "ok"
      /\ last.pre.h.t = "array"
      /\ IsKey(treeFile, last.pre.q)
      /\ ~StartsWithAction(last.pre.q) ) =>
      /\ currentQuestion = last.pre.q
      /\ answerHistory = last.pre.h
      /\ localStorage = last.pre.ls
      /\ questionText # ErrorText

\* C23: goBack on a non-empty loaded history, whatever its entries, does not
\* throw and leaves a current node id that is a key of the tree and is the
\* replay of the truncated history.
GoBackRobust ==
    [][ ( /\ last'.op = "back"
          /\ answerHistory.t = "array"
          /\ answerHistory.v # << >> ) =>
          /\ ~last'.threw
          /\ answerHistory' = Arr(Prefix(answerHistory.v, Len(answerHistory.v) - 1))
          /\ IsKey(decisionTree, currentQuestion')
          /\ currentQuestion' = Replay(decisionTree, answerHistory'.v) ]_vars

\* the load of the tree has failed on the page on display
LoadFailed ==
    page = "index" /\ last.op = "fetch" /\ last.arg \in FailedOutcomes

\* C24: while the tree load is pending and after it has failed, no answer
\* and no back handler is wired, and the next event is never an answer or a
\* goBack: only the end of the fetch or a new page load follows, so the
\* history and the storage are not changed by the user before the tree has
\* resolved.
NoInputBeforeTree ==
    /\ [] ( (fetching \/ LoadFailed) =>
              /\ yesOnclick = Null
              /\ noOnclick = Null
              /\ ~backOnclick )
    /\ [][ (fetching \/ LoadFailed) => last'.op \in {"fetch", "start"} ]_vars

\* the fetch has failed on a page that had restored a session at q2
NoInputBeforeTreeWitness ==
    /\ LoadFailed
    /\ last.arg = "http"
    /\ last.pre.q = Str("q2")
    /\ last.pre.h = Arr(<< Entry("T1", "yes") >>)
    /\ yesOnclick = Null /\ ~backOnclick

\* the page has entered Result: a result is persisted and result.html has
\* been asked for
InResult ==
    page = "index" /\ href = "result.html" /\ localStorage[KResult] # Null

\* C25: once Result has been entered, no answer and no goBack of that page
\* life changes the in-memory history, the persisted history, the persisted
\* current-question or the persisted result.
ResultIsTerminal ==
    [][ (InResult /\ last'.op \in {"answer", "back"}) =>
          /\ answerHistory' = answerHistory
          /\ localStorage'[KHistory] = localStorage[KHistory]
          /\ localStorage'[KQuestion] = localStorage[KQuestion]
          /\ localStorage'[KResult] = localStorage[KResult] ]_vars

\* C26: after every completed answer that leads to a question, and after
\* every goBack that changes the in-memory state, the persisted history is
\* the in-memory history and the persisted current-question is the in-memory
\* current node id.
PersistenceMirrors ==
    [][ ( \/ /\ last'.op = "answer" /\ ~last'.threw
             /\ IsKey(decisionTree, NextIdOf(last'))
             /\ ~StartsWithAction(NextIdOf(last'))
          \/ /\ last'.op = "back"
             /\ <<currentQuestion', answerHistory'>>
                  # <<currentQuestion, answerHistory>> ) =>
          /\ localStorage'[KHistory] # Null
          /\ JSONparse(localStorage'[KHistory]) =
               [ok |-> TRUE, val |-> answerHistory']
          /\ localStorage'[KQuestion] = currentQuestion' ]_vars

\* the entry the answer of event e appends to the history
EntryOf(e) ==
    Obj(<< <<"question", Get(e.node, "text")>>, <<"answer", Str(e.arg)>> >>)

\* the history the answer of event e leaves in memory
HistoryAfter(e) == Arr(Append(e.pre.h.v, EntryOf(e)))

\* C27: in an answer event the history with the new entry and the next node
\* id are both in the storage before showQuestion renders or navigates (the
\* result key is still what it was), so when the page life ends at that
\* point, the next load of index.html resumes at the next node id, when there
\* is one, with the history that holds the new entry.
PersistBeforeRender ==
    /\ [] ( last.op = "answer-written" =>
              /\ JSONparse(localStorage[KHistory]) =
                   [ok |-> TRUE, val |-> HistoryAfter(last)]
              /\ localStorage[KQuestion] = String(NextIdOf(last))
              /\ localStorage[KResult] = last.pre.ls[KResult]
              /\ href = "index.html" )
    /\ [][ ( /\ last.op = "answer-written"
             /\ Truthy(NextIdOf(last))
             /\ last'.op = "start" /\ page' = "index" ) =>
             /\ currentQuestion' = NextIdOf(last)
             /\ answerHistory' = HistoryAfter(last) ]_vars

\* the page life ended in the answer "yes" at q1 with both keys written, and
\* index.html has loaded again at q2 with the one-entry history
PersistBeforeRenderWitness ==
    /\ last.op = "start" /\ last.after = "answer-written" /\ page = "index"
    /\ currentQuestion = Str("q2")
    /\ answerHistory = Arr(<< Entry("T1", "yes") >>)
    /\ localStorage[KResult] = Null

\* C28: when a page life ends between the two storage writes of an answer or
\* a goBack, the next load either resumes in the state of both writes (the
\* history written and the node id that goes with it) or resets the session;
\* it never resumes with another current node id.
AtomicPersistence ==
    [][ ( /\ last.op \in {"answer-between", "back-between"}
          /\ last'.op = "start" /\ page' = "index" ) =>
          \/ /\ last.op = "answer-between"
             /\ answerHistory' = HistoryAfter(last)
             /\ currentQuestion' = NextIdOf(last)
          \/ /\ last.op = "back-between"
             /\ answerHistory' = Arr(Prefix(last.pre.h.v, Len(last.pre.h.v) - 1))
             /\ currentQuestion' = Replay(treeFile, answerHistory'.v)
          \/ /\ currentQuestion' = Str("q1")
             /\ answerHistory' = Arr(<< >>)
             /\ NoSessionData(localStorage') ]_vars

\* C29: in every Question state of a page that has the back button, the
\* button is displayed and wired to goToPreviousQuestion exactly when the
\* current node is not q1, and is hidden exactly at q1.
BackOfferedOffRoot ==
    (InQuestion /\ "back-btn" \in present) =>
      /\ (backDisplay = "none") <=> (currentQuestion = Str("q1"))
      /\ (currentQuestion # Str("q1")) => (backDisplay = "block" /\ backOnclick)

\* the fraction a is less than the fraction b (denominators are positive)
FractionLess(a, b) == a[1] * b[2] < b[1] * a[2]

\* C30: the progress shown for a displayed question node is a function of its
\* step alone: the label is step/7 and the percentage p satisfies
\* p * 7 = step * 100, with the total 7 for trees of two and of three question
\* nodes; for the steps 1..7 the percentage is in (0, 100] and strictly
\* increasing in the step.
ProgressOfStep ==
    /\ InQuestion =>
         LET step == Get(yesOnclick, "step") IN
           /\ progressText = <<step, 7>>
           /\ Len(progressWidth) = 2
           /\ progressWidth[2] > 0
           /\ progressWidth[1] * 7 = step.v * 100 * progressWidth[2]
           /\ progressWidth = Percentage(step)
    /\ \A a \in 1..7 :
         /\ Percentage(Num(a))[2] > 0
         /\ FractionLess(<<0, 1>>, Percentage(Num(a)))
         /\ ~FractionLess(<<100, 1>>, Percentage(Num(a)))
         /\ Percentage(Num(a))[1] * 7 = a * 100 * Percentage(Num(a))[2]
         /\ \A b \in 1..7 :
              a < b => FractionLess(Percentage(Num(a)), Percentage(Num(b)))

\* the answer "yes" at q1 has shown the question q2 of step 7: the label is
\* 7/7 and the width is 100 percent
ProgressOfStepWitness ==
    /\ InQuestion /\ last.op = "answer"
    /\ currentQuestion = Str("q2")
    /\ Get(yesOnclick, "step") = Num(7)
    /\ progressText = <<Num(7), 7>>
    /\ progressWidth[1] = 100 * progressWidth[2]

\* C31: in the visits that start on an empty storage with the well-formed
\* tree, every Question state has a current node id that is a question node
\* of the tree and the replay of the in-memory history from q1, and a
\* persisted history, when there is one, that is the in-memory history.
FreshRunConsistent ==
    (pristine /\ treeFile = TreeWellFormed /\ InQuestion) =>
      /\ IsKey(decisionTree, currentQuestion)
      /\ ~StartsWithAction(currentQuestion)
      /\ answerHistory.t = "array"
      /\ currentQuestion = Replay(decisionTree, answerHistory.v)
      /\ localStorage[KHistory] # Null =>
           JSONparse(localStorage[KHistory]) = [ok |-> TRUE, val |-> answerHistory]

ResultWithoutQuestion(storage) ==
    /\ storage[KVersion] = CACHE_VERSION
    /\ storage[KResult] # Null
    /\ storage[KQuestion] = Null

ConsistentStorage(storage) ==
    LET parsed == JSONparse(storage[KHistory])
        h == IF storage[KHistory] = Null THEN Arr(<< >>) ELSE parsed.val
        q == IF storage[KQuestion] = Null THEN Str("q1") ELSE storage[KQuestion]
    IN /\ storage[KVersion] = CACHE_VERSION
       /\ storage[KHistory] # Null => parsed.ok
       /\ WellFormedHistory(h)
       /\ IsKey(treeFile, q)
       /\ q = Replay(treeFile, h.v)
       /\ StartsWithAction(q) <=> storage[KResult] # Null
       /\ storage[KResult] # Null => storage[KResult] = ResultOf(q)

\* C34: when index.html is opened on a consistent persisted state of the
\* current version and the fetch succeeds with the well-formed tree, the page
\* initialisation (loadStateFromStorage, then loadDecisionTree) leaves the
\* persisted current-question, answer-history and result as they were,
\* whichever of the optional elements the page has.
ProgressKept ==
    [][ ( /\ treeFile = TreeWellFormed
          /\ last.op = "start" /\ page = "index" /\ fetching
          /\ ConsistentStorage(last.pre.ls)
          /\ last'.op = "fetch" /\ last'.arg = "ok" ) =>
          /\ localStorage'[KQuestion] = last.pre.ls[KQuestion]
          /\ localStorage'[KHistory] = last.pre.ls[KHistory]
          /\ localStorage'[KResult] = last.pre.ls[KResult] ]_vars

\* C35: a load of index.html leaves the current version in the storage; every
\* answer and goBack (terminal transitions included) leaves the stored version
\* as it is, and it is the current one whenever a handler is wired; once a
\* page is open the stored version is the current one or absent, and it
\* becomes absent only in a restart or at the end of a fetch, together with
\* the three other keys.
VersionStable ==
    /\ [] ( page # "none" => localStorage[KVersion] \in {Null, CACHE_VERSION} )
    /\ [] ( (yesOnclick # Null \/ noOnclick # Null \/ backOnclick) =>
              localStorage[KVersion] = CACHE_VERSION )
    /\ [][ /\ (last'.op = "start" /\ page' = "index") =>
                localStorage'[KVersion] = CACHE_VERSION
           /\ last'.op \in {"answer", "back"} =>
                localStorage'[KVersion] = localStorage[KVersion]
           /\ ( /\ localStorage[KVersion] = CACHE_VERSION
                /\ localStorage'[KVersion] # CACHE_VERSION ) =>
                /\ last'.op \in {"restart", "fetch"}
                /\ \A k \in YarukiKeys : localStorage'[k] = Null ]_vars

\* a visit that found the version "1" (or none) has loaded index.html, and an
\* answer has led to a terminal node: the stored version is the current one
VersionStableWitness ==
    /\ ~pristine
    /\ last.op = "answer" /\ ~last.threw
    /\ href = "result.html"
    /\ session.reached # {}
    /\ localStorage[KHistory] = HistoryText(<< Entry("T1", "no") >>)
    /\ localStorage[KVersion] = CACHE_VERSION

\* the question nodes of a tree
QuestionIds(tree) == Keys(tree) \ ActionIds

\* the largest number of answers that lead from the node id to a terminal
\* node, on a tree without cycles
RECURSIVE Rank(_, _)
Rank(tree, id) ==
    IF ~IsKey(tree, id) \/ StartsWithAction(id) THEN 0
    ELSE LET y == Rank(tree, Get(Index(tree, id), "yes"))
             n == Rank(tree, Get(Index(tree, id), "no"))
         IN 1 + (IF y > n THEN y ELSE n)

\* C36: on a well-formed tree without cycles that has N question nodes, a
\* user who only answers reaches Result from every Question state of a fresh
\* start: each answer enters Result or shows a question that is nearer to the
\* terminal nodes, the answers given and those that can still be needed are
\* at most N, and when the user keeps answering Result is entered.
AnsweringTerminates ==
    /\ [] ( InQuestion =>
              /\ Rank(decisionTree, currentQuestion) >= 1
              /\ Len(answerHistory.v) + Rank(decisionTree, currentQuestion)
                   <= Cardinality(QuestionIds(decisionTree)) )
    /\ [][ (InQuestion /\ last'.op = "answer") =>
             \/ InResult'
             \/ /\ InQuestion'
                /\ Rank(decisionTree', currentQuestion')
                     < Rank(decisionTree, currentQuestion) ]_vars
    /\ (InQuestion ~> InResult)

\* on the tree of three question nodes the third answer has entered Result
AnsweringTerminatesWitness ==
    /\ treeFile = TreeWellFormed
    /\ InResult /\ last.op = "answer"
    /\ last.pre.q = Str("q3")
    /\ Len(answerHistory.v) = 3
    /\ localStorage[KResult] = ResultText("RZ", "CZ")

\* C37: in the visits that start on an empty storage, on every tree, when
\* answers and goBacks have been given (a current-question is persisted) and
\* index.html is loaded again with a successful tree load, the load ends in a
\* Question state or in Result; it never ends with no handler wired, no
\* result page asked for and the storage as it was.
NoStuckSession ==
    [][ ( /\ pristine /\ localStorage[KQuestion] # Null
          /\ page = "index" /\ fetching
          /\ last'.op = "fetch" /\ last'.arg = "ok" ) =>
          \/ InQuestion'
          \/ InResult'
          \/ localStorage' # localStorage ]_vars

====
